---------------------------- MODULE Spec2Model ----------------------------
(* A session of the order dashboard (dashboard.py / sub_dashboard.py).      *)
(* Streamlit re-executes the whole script, top to bottom, when the session  *)
(* opens and again on every change of the date-range widget; one action     *)
(* below is one such execution.                                             *)
(*                                                                          *)
(* Encoding.  Timestamps are seconds since midnight of day 0; a calendar    *)
(* date is a day number.  Money (payment_value) is in whole units, price is *)
(* in cents so that 49.99 is 4999, 50.00 is 5000 and 100.00 is 10000.       *)
(* Missing numeric cells (NaN / NaT) are the integer -1, which no real      *)
(* value takes; every comparison guards it the way pandas does (a           *)
(* comparison with NaN / NaT is False).  Keys and labels are strings.       *)
EXTENDS Integers, Sequences, FiniteSets, TLC

VARIABLES
    csv,                       \* the rows of df.csv, as stored on disk
    script,                    \* which of the two scripts the session runs
    all_df,                    \* the frame loaded and prepared by the last run
    start_date, end_date,      \* the dates returned by st.sidebar.date_input
    filtered_df,               \* rows of all_df inside the selected range
    price_category,            \* the column added by pd.cut, one label per row
    cut_bins,                  \* the bin edges handed to pd.cut
    profit_comparison,         \* payment sum per price category
    average_spending,          \* mean of the per-customer payment sums
    daily_orders_df,           \* helper table: (date, order count, revenue) rows
    sum_spend_df,              \* helper table: (customer, payment sum, count) rows
    sum_order_items_df,        \* helper table: (product category, count) rows
    order_status_df,           \* helper table: (order status, count) rows
    most_common_status,        \* helper scalar
    review_scores,             \* helper table: (review score, count) rows
    most_common_score,         \* helper scalar
    bystate_df,                \* helper table: (state, customer count) rows
    most_common_state,         \* helper scalar
    most_common_review_score,  \* sub_dashboard.py's own review_scores.idxmax()
    most_common_state_tab,     \* sub_dashboard.py's own idxmax over bystate_df
    error                      \* the exception that ended the last run, if any

vars == <<csv, script, all_df, start_date, end_date, filtered_df,
          price_category, cut_bins, profit_comparison, average_spending,
          daily_orders_df, sum_spend_df, sum_order_items_df, order_status_df,
          most_common_status,
          review_scores, most_common_score, bystate_df, most_common_state,
          most_common_review_score, most_common_state_tab, error>>

---------------------------------------------------------------------------
(* Bounds of the model.                                                     *)
MaxRows == 3          \* rows in df.csv
MaxStampedRows == 2  \* rows in df.csv where the approval timestamps vary freely
MaxDay == 2          \* calendar days 0..MaxDay carry orders

(* Values.                                                                  *)
NaT == -1                 \* missing order_approved_at
NaN == -1                 \* missing payment_value / price
NoKey == "NaN"            \* missing review_score / customer_state / label
None == "None"            \* the helper's "no most common value" sentinel
Unset == "unset"          \* a name the run never assigned
NoDate == -1              \* the widget before the first run
SecondsPerDay == 86400
NoMetric == [num |-> 0, den |-> 0]   \* average_spending never assigned

Scripts == {"dashboard", "sub_dashboard"}

(* Ascending order of the keys of each grouping column.                     *)
KeyOrder == <<"4", "5", "RJ", "SP", "delivered">>
KeyRank(k) == CHOOSE i \in 1..Len(KeyOrder) : KeyOrder[i] = k

---------------------------------------------------------------------------
(* Generic helpers.                                                         *)
Range(s) == {s[i] : i \in 1..Len(s)}
SetMin(S) == CHOOSE x \in S : \A y \in S : x <= y
SetMax(S) == CHOOSE x \in S : \A y \in S : x >= y

RECURSIVE SumSeq(_)
SumSeq(s) == IF s = <<>> THEN 0 ELSE Head(s) + SumSeq(Tail(s))

(* Every ordering of the finite set S as a sequence without repetition.     *)
Orderings(S) ==
    {f \in [1..Cardinality(S) -> S] : \A i, j \in 1..Cardinality(S) : f[i] = f[j] => i = j}

---------------------------------------------------------------------------
(* Data preparation and the date widget.                                    *)

(* all_df['payment_value'].fillna(0); to_datetime keeps NaT for empty cells *)
Prepare(rows) ==
    [i \in 1..Len(rows) |->
        [rows[i] EXCEPT !.payment_value = IF @ = NaN THEN 0 ELSE @]]

Approved(df) == {df[i].order_approved_at : i \in 1..Len(df)} \ {NaT}
date_min(df) == SetMin(Approved(df))     \* Series.min() skips NaT
date_max(df) == SetMax(Approved(df))

(* date_input turns the timestamps it is given into calendar dates ...      *)
to_date(ts) == ts \div SecondsPerDay
(* ... and pd.to_datetime(date) is 00:00:00 of that day.                    *)
to_datetime(d) == d * SecondsPerDay

(* The dates a user can pick: min_value..max_value, start <= end.           *)
Selectable(df) == to_date(date_min(df)) .. to_date(date_max(df))

---------------------------------------------------------------------------
(* The date-range filter.                                                   *)
(* Variant of the mask with the end bound excluded (<= written as <).       *)
InRangeExclusiveEnd(row, start, end) ==
    /\ row.order_approved_at # NaT
    /\ row.order_approved_at >= to_datetime(start)
    /\ row.order_approved_at < to_datetime(end)

(* (ts >= start) & (ts <= end); a comparison with NaT is False.             *)
InRange(row, start, end) ==
    /\ row.order_approved_at # NaT
    /\ row.order_approved_at >= to_datetime(start)
    /\ row.order_approved_at <= to_datetime(end)

(* Variant of the filter that loses the first selected row.                 *)
DropFirstMatch(df, start, end) ==
    LET kept == SelectSeq(df, LAMBDA r : InRange(r, start, end))
    IN  IF kept = <<>> THEN kept ELSE Tail(kept)

FilterByDate(df, start, end) ==
    SelectSeq(df, LAMBDA r : InRange(r, start, end))

---------------------------------------------------------------------------
(* Average spending per customer:                                           *)
(*   filtered_df.groupby('customer_unique_id')['payment_value'].sum().mean()*)
(* The mean is kept as the exact fraction num / den.                        *)
Column(df, name) == [i \in 1..Len(df) |-> df[i][name]]

GroupKeys(df, name) == Range(Column(df, name)) \ {NoKey}   \* groupby drops NaN keys

GroupRows(df, name, k) == SelectSeq(df, LAMBDA r : r[name] = k)

GroupSum(df, name, k) == SumSeq(Column(GroupRows(df, name, k), "payment_value"))

RECURSIVE SumOver(_, _, _)
SumOver(df, name, keys) ==
    IF keys = {} THEN 0
    ELSE LET k == CHOOSE x \in keys : TRUE
         IN  GroupSum(df, name, k) + SumOver(df, name, keys \ {k})

(* Variant: the mean over the rows instead of over the customers.           *)
LineItemMean(df) ==
    [num |-> SumSeq(Column(df, "payment_value")), den |-> Len(df)]

CustomerMean(df) ==
    [num |-> SumOver(df, "customer_unique_id", GroupKeys(df, "customer_unique_id")),
     den |-> Cardinality(GroupKeys(df, "customer_unique_id"))]

---------------------------------------------------------------------------
(* Price categories: pd.cut(price, bins=[0, 50, 100, price.max()], labels). *)
Labels(s) ==
    IF s = "dashboard" THEN <<"Murah", "Sedang", "Mahal">>
                       ELSE <<"Cheap", "Mid", "Expensive">>

Prices(df) == {df[i].price : i \in 1..Len(df)} \ {NaN}

(* Series.max() skips NaN and is NaN when no price is present.              *)
price_max(df) == IF Prices(df) = {} THEN NaN ELSE SetMax(Prices(df))

Bins(df) == <<0, 5000, 10000, price_max(df)>>

(* pd.cut refuses edges that decrease ("bins must increase monotonically")  *)
(* and edges that repeat ("Bin edges must be unique").  With a NaN edge the *)
(* outcome depends on the pandas release: nanRaises is that choice.         *)
CutRaises(bins, nanRaises) ==
    IF bins[4] = NaN THEN nanRaises
    ELSE \E i \in 1..3 : bins[i] >= bins[i + 1]

(* right=True, include_lowest=False: a value x falls in bin i iff           *)
(* bins[i] < x <= bins[i+1]; anything else, NaN included, gets no label.    *)
CutLabel(x, bins, labels) ==
    IF x = NaN \/ bins[4] = NaN THEN NoKey
    ELSE IF bins[1] < x /\ x <= bins[2] THEN labels[1]
    ELSE IF bins[2] < x /\ x <= bins[3] THEN labels[2]
    ELSE IF bins[3] < x /\ x <= bins[4] THEN labels[3]
    ELSE NoKey

pd_cut(df, bins, labels) ==
    [i \in 1..Len(df) |-> CutLabel(df[i].price, bins, labels)]

(* filtered_df.groupby('price_category')['payment_value'].sum(): one sum    *)
(* per category, rows without a category in none of them.                   *)
CategoryRows(df, cats, label) == {i \in 1..Len(df) : cats[i] = label}

RECURSIVE SumPayments(_, _)
SumPayments(df, idx) ==
    IF idx = {} THEN 0
    ELSE LET i == CHOOSE x \in idx : TRUE
         IN  df[i].payment_value + SumPayments(df, idx \ {i})

ProfitByCategory(df, cats, labels) ==
    [c \in 1..3 |-> SumPayments(df, CategoryRows(df, cats, labels[c]))]

---------------------------------------------------------------------------
(* HelperDataAnalyzer (helper.py): the derived tables and their "most       *)
(* common" scalars.  A table is a sequence of (key, count) rows; rows with  *)
(* a missing grouping key are left out; on an empty input the table is      *)
(* empty and the scalar is None.  The order of the rows is not fixed.       *)
ReviewRows(df) ==
    {[key |-> k, count |-> Len(GroupRows(df, "review_score", k))] :
        k \in GroupKeys(df, "review_score")}

StateRows(df) ==
    {[key |-> k,
      count |-> Cardinality(GroupKeys(GroupRows(df, "customer_state", k),
                                      "customer_unique_id"))] :
        k \in GroupKeys(df, "customer_state")}

DailyRows(df) ==
    {[key |-> d,
      count |-> Len(SelectSeq(df, LAMBDA r :
                      r.order_approved_at # NaT /\ to_date(r.order_approved_at) = d)),
      revenue |-> SumSeq(Column(SelectSeq(df, LAMBDA r :
                      r.order_approved_at # NaT /\ to_date(r.order_approved_at) = d),
                      "payment_value"))] :
        d \in {to_date(ts) : ts \in Approved(df)}}

CustomerRows(df) ==
    {[key |-> k, sum |-> GroupSum(df, "customer_unique_id", k),
      count |-> Len(GroupRows(df, "customer_unique_id", k))] :
        k \in GroupKeys(df, "customer_unique_id")}

ItemRows(df) ==
    {[key |-> k, count |-> Len(GroupRows(df, "product_category_name_english", k))] :
        k \in GroupKeys(df, "product_category_name_english")}

StatusRows(df) ==
    {[key |-> k, count |-> Len(GroupRows(df, "order_status", k))] :
        k \in GroupKeys(df, "order_status")}

(* The six tables of a frame, each in one of its possible row orders.       *)
HelperTables(df) ==
    [daily : Orderings(DailyRows(df)), spend : Orderings(CustomerRows(df)),
     items : Orderings(ItemRows(df)), review : Orderings(ReviewRows(df)),
     state : Orderings(StateRows(df)), status : Orderings(StatusRows(df))]

(* The key that comes first by (descending count, ascending key).           *)
MostCommon(rows) ==
    IF rows = {} THEN None
    ELSE LET top == SetMax({r.count : r \in rows})
             tied == {r.key : r \in {x \in rows : x.count = top}}
         IN  CHOOSE k \in tied : \A o \in tied : KeyRank(k) <= KeyRank(o)

(* Series.idxmax(): the label of the first row, in row order, that holds    *)
(* the maximum.  It raises ValueError on an empty Series.                   *)
IdxMax(table) ==
    LET top == SetMax({table[i].count : i \in 1..Len(table)})
        first == SetMin({i \in 1..Len(table) : table[i].count = top})
    IN  table[first].key

---------------------------------------------------------------------------
(* One execution of the script on the frame src with the widget returning   *)
(* (s, e).  dashboard.py computes the average before pd.cut and recomputes  *)
(* no scalar; sub_dashboard.py runs pd.cut first, then the average, then    *)
(* review_scores.idxmax() and the idxmax over bystate_df.  An exception     *)
(* ends the run: what follows it is never assigned.                         *)
ScriptRun(src, s, e, nanRaises, t) ==
    LET f == FilterByDate(src, s, e)
        bins == Bins(f)
        sub == script = "sub_dashboard"
        cutFails == CutRaises(bins, nanRaises)
        cats == pd_cut(f, bins, Labels(script))
        rs == t.review
        bs == t.state
        reviewFails == sub /\ ~cutFails /\ rs = <<>>
        stateFails == sub /\ ~cutFails /\ ~reviewFails /\ bs = <<>>
    IN  /\ all_df' = src
        /\ start_date' = s
        /\ end_date' = e
        /\ filtered_df' = f
        /\ daily_orders_df' = t.daily
        /\ sum_spend_df' = t.spend
        /\ sum_order_items_df' = t.items
        /\ order_status_df' = t.status
        /\ most_common_status' = MostCommon(StatusRows(f))
        /\ review_scores' = rs
        /\ most_common_score' = MostCommon(ReviewRows(f))
        /\ bystate_df' = bs
        /\ most_common_state' = MostCommon(StateRows(f))
        /\ cut_bins' = bins
        /\ price_category' = IF cutFails THEN <<>> ELSE cats
        /\ profit_comparison' =
              IF cutFails THEN <<>> ELSE ProfitByCategory(f, cats, Labels(script))
        /\ average_spending' =
              IF f = <<>> \/ (sub /\ cutFails) THEN NoMetric ELSE CustomerMean(f)
        /\ most_common_review_score' =
              IF sub /\ ~cutFails /\ ~reviewFails THEN IdxMax(rs) ELSE Unset
        /\ most_common_state_tab' =
              IF sub /\ ~cutFails /\ ~reviewFails /\ ~stateFails
              THEN IdxMax(bs) ELSE Unset
        /\ error' = IF cutFails THEN "ValueError in pd.cut"
                    ELSE IF reviewFails THEN "ValueError in review_scores.idxmax"
                    ELSE IF stateFails THEN "ValueError in customer_count.idxmax"
                    ELSE "none"
        /\ UNCHANGED <<csv, script>>

Execute(src, s, e) ==
    LET f == FilterByDate(src, s, e)
    IN  \E nanRaises \in (IF price_max(f) = NaN THEN BOOLEAN ELSE {FALSE}) :
        \E t \in HelperTables(f) :
            ScriptRun(src, s, e, nanRaises, t)

(* The session opens: the widget returns its default, [date_min, date_max]  *)
(* as calendar dates.                                                       *)
FirstRun ==
    /\ start_date = NoDate
    /\ Execute(Prepare(csv),
               to_date(date_min(Prepare(csv))), to_date(date_max(Prepare(csv))))

(* Variant: the new range is applied to the previous filtered frame.        *)
ChangeRangeIncremental(s, e) ==
    /\ start_date # NoDate
    /\ s \in Selectable(Prepare(csv)) /\ e \in Selectable(Prepare(csv))
    /\ s <= e
    /\ Execute(filtered_df, s, e)

(* The user picks another range: the script runs again from read_csv.       *)
ChangeRange(s, e) ==
    /\ start_date # NoDate
    /\ s \in Selectable(Prepare(csv)) /\ e \in Selectable(Prepare(csv))
    /\ s <= e
    /\ Execute(Prepare(csv), s, e)

Next ==
    \/ FirstRun
    \/ \E s, e \in 0..MaxDay : ChangeRange(s, e)

---------------------------------------------------------------------------
(* Initial states: a df.csv of 1..MaxRows rows with at least one approval   *)
(* timestamp, and a script that has not run yet.                            *)
BaseRow ==
    [order_approved_at |-> 0, customer_unique_id |-> "A", payment_value |-> 10,
     price |-> 15000, customer_state |-> "SP", review_score |-> "5",
     product_category_name_english |-> "toys", order_status |-> "delivered"]

Timestamps == {d * SecondsPerDay + t : d \in 0..MaxDay, t \in {0, 63606}}

FilterRows ==
    {[BaseRow EXCEPT !.order_approved_at = ts] : ts \in Timestamps \cup {NaT}}

SpendRows ==
    {[BaseRow EXCEPT !.customer_unique_id = c, !.payment_value = p] :
        c \in {"A", "B"}, p \in {NaN, 10, 20, 30}}

PriceRows ==
    {[BaseRow EXCEPT !.price = p] : p \in {NaN, 0, 4999, 5000, 10000, 15000}}

SessionRows ==
    {[BaseRow EXCEPT !.price = p, !.order_approved_at = d * SecondsPerDay] :
        p \in {NaN, 4999, 15000}, d \in {0, 1}}

ModeRows ==
    {[BaseRow EXCEPT !.customer_state = st, !.review_score = sc,
                     !.customer_unique_id = c] :
        st \in {"RJ", "SP"}, sc \in {NoKey, "4", "5"}, c \in {"A", "B"}}

Datasets(rows, maxLen) ==
    {d \in UNION {[1..n -> rows] : n \in 1..maxLen} : Approved(d) # {}}

InitWith(rows, maxLen) ==
    /\ csv \in Datasets(rows, maxLen)
    /\ script \in Scripts
    /\ all_df = <<>>
    /\ start_date = NoDate
    /\ end_date = NoDate
    /\ filtered_df = <<>>
    /\ price_category = <<>>
    /\ cut_bins = <<>>
    /\ profit_comparison = <<>>
    /\ average_spending = NoMetric
    /\ daily_orders_df = <<>>
    /\ sum_spend_df = <<>>
    /\ sum_order_items_df = <<>>
    /\ order_status_df = <<>>
    /\ most_common_status = Unset
    /\ review_scores = <<>>
    /\ most_common_score = Unset
    /\ bystate_df = <<>>
    /\ most_common_state = Unset
    /\ most_common_review_score = Unset
    /\ most_common_state_tab = Unset
    /\ error = "none"

Init == InitWith(FilterRows, MaxStampedRows)
InitSpend == InitWith(SpendRows, MaxRows)
InitPrice == InitWith(PriceRows, MaxRows)
InitSession == InitWith(SessionRows, MaxRows)
InitMode == InitWith(ModeRows, MaxRows)

(* Spec: the approval timestamps vary; SpecSpend: customers and payments;   *)
(* SpecPrice: prices; SpecSession: prices and approval days; SpecMode:      *)
(* states, review scores and customers.                                     *)
Spec == Init /\ [][Next]_vars
SpecSpend == InitSpend /\ [][Next]_vars
SpecPrice == InitPrice /\ [][Next]_vars
SpecSession == InitSession /\ [][Next]_vars
SpecMode == InitMode /\ [][Next]_vars

---------------------------------------------------------------------------
(* Properties.                                                              *)
Started == start_date # NoDate
CutFailed == error = "ValueError in pd.cut"
Occurrences(seq, r) == Cardinality({i \in 1..Len(seq) : seq[i] = r})
Within(ts, lo, hi) == ts # NaT /\ lo <= ts /\ ts <= hi
IsTableOf(table, rows) == Range(table) = rows /\ Len(table) = Cardinality(rows)

(* C1: the filtered frame holds exactly the rows whose approval timestamp   *)
(* is present and lies in [start, end], both ends included: every kept row  *)
(* satisfies it, every row that satisfies it is kept (as often as it        *)
(* occurs), and a row without a timestamp is never kept.                    *)
C1_FilterExact ==
    Started =>
        LET lo == to_datetime(start_date)
            hi == to_datetime(end_date)
        IN  /\ \A i \in 1..Len(filtered_df) :
                   Within(filtered_df[i].order_approved_at, lo, hi)
            /\ \A r \in Range(all_df) :
                   Occurrences(filtered_df, r) =
                       IF Within(r.order_approved_at, lo, hi)
                       THEN Occurrences(all_df, r) ELSE 0

(* A run that kept one row and dropped a row without a timestamp.           *)
C1_Witness ==
    /\ Started
    /\ Len(all_df) = 2 /\ Len(filtered_df) = 1
    /\ \E i \in 1..Len(all_df) : all_df[i].order_approved_at = NaT
    /\ filtered_df[1].order_approved_at = to_datetime(end_date)

(* C6: filtering the filtered frame again with the same range changes       *)
(* nothing: same rows, same order.                                          *)
C6_FilterIdempotent ==
    Started => FilterByDate(filtered_df, start_date, end_date) = filtered_df

(* A run that kept two different rows, so that their order is visible.      *)
C6_Witness ==
    /\ Started
    /\ Len(filtered_df) = 2
    /\ filtered_df[1].order_approved_at > filtered_df[2].order_approved_at

(* C9: with the default selection [date_min, date_max] the filtered frame   *)
(* holds every row that has an approval timestamp.                          *)
C9_DefaultKeepsAllApproved ==
    (/\ Started
     /\ start_date = to_date(date_min(all_df))
     /\ end_date = to_date(date_max(all_df)))
        => filtered_df = SelectSeq(all_df, LAMBDA r : r.order_approved_at # NaT)

(* C4: a run whose filtered frame is empty ends without an exception, with  *)
(* empty tables and with every "most common" scalar, the ones the script    *)
(* recomputes included, equal to the absent sentinel.  Stated for the runs  *)
(* that get past pd.cut, whose verdict on a NaN edge varies with the pandas *)
(* release: what is left is the scripts' own code.                          *)
C4_EmptyRunCompletes ==
    (Started /\ filtered_df = <<>> /\ ~CutFailed) =>
        /\ error = "none"
        /\ daily_orders_df = <<>> /\ sum_spend_df = <<>>
        /\ sum_order_items_df = <<>> /\ order_status_df = <<>>
        /\ review_scores = <<>> /\ bystate_df = <<>>
        /\ most_common_score = None /\ most_common_state = None
        /\ most_common_status = None
        /\ script = "sub_dashboard" =>
               /\ most_common_review_score = None
               /\ most_common_state_tab = None

(* C2: the average spending is the mean, over the distinct customers, of    *)
(* each customer's payment sum: its numerator is the sum of all payments    *)
(* of the filtered frame, its denominator the number of distinct customers; *)
(* payments 10 and 30 of A and 20 of B give 60 / 2 = 30, not 60 / 3 = 20.   *)
C2_AverageIsMeanOfCustomerSums ==
    (Started /\ filtered_df # <<>> /\ error = "none") =>
        LET custs == {filtered_df[i].customer_unique_id : i \in 1..Len(filtered_df)}
            total == SumPayments(filtered_df, 1..Len(filtered_df))
        IN  /\ average_spending.den = Cardinality(custs)
            /\ average_spending.num = total
            /\ (/\ Column(filtered_df, "customer_unique_id") = <<"A", "A", "B">>
                /\ Column(filtered_df, "payment_value") = <<10, 30, 20>>)
                   => average_spending = [num |-> 60, den |-> 2]

(* The run on A: 10, A: 30, B: 20.                                          *)
C2_Witness ==
    /\ Started /\ error = "none"
    /\ Column(filtered_df, "customer_unique_id") = <<"A", "A", "B">>
    /\ Column(filtered_df, "payment_value") = <<10, 30, 20>>
    /\ average_spending.num = 30 * average_spending.den

(* C3: a price in [0, 50) is labelled cheap, in [50, 100) mid, in           *)
(* [100, max(price)] expensive; a row without a price has no label and      *)
(* adds to no bucket of the per-category payment sum.                       *)
C3_HalfOpenBins ==
    (Started /\ ~CutFailed) =>
        LET labels == Labels(script)
            claimed(x) ==
                IF x = NaN THEN NoKey
                ELSE IF 0 <= x /\ x < 5000 THEN labels[1]
                ELSE IF 5000 <= x /\ x < 10000 THEN labels[2]
                ELSE labels[3]
        IN  /\ \A i \in 1..Len(filtered_df) :
                   price_category[i] = claimed(filtered_df[i].price)
            /\ \A c \in 1..3 :
                   profit_comparison[c] =
                       SumPayments(filtered_df,
                           {i \in 1..Len(filtered_df) :
                                claimed(filtered_df[i].price) = labels[c]})

(* C10: whatever the largest price of the filtered frame, the labelling    *)
(* does not raise, its edges 0, 50, 100, max(price) increase strictly, and  *)
(* every row with a present, non-negative price has one of the three        *)
(* labels.                                                                  *)
C10_LabellingNeverRaises ==
    (Started /\ Prices(filtered_df) # {}) =>
        /\ ~CutFailed
        /\ \A i \in 1..3 : cut_bins[i] < cut_bins[i + 1]
        /\ \A i \in 1..Len(filtered_df) :
               filtered_df[i].price # NaN /\ filtered_df[i].price >= 0
                   => price_category[i] \in Range(Labels(script))

(* C5: the "most common" key the script takes from a table is the first by  *)
(* (descending count, ascending key), whatever the order of the rows.       *)
C5_TieBreakSmallestKey ==
    (Started /\ script = "sub_dashboard" /\ error = "none") =>
        /\ most_common_state_tab = MostCommon(Range(bystate_df))
        /\ most_common_review_score = MostCommon(Range(review_scores))

(* C7: the scalars returned by the helper equal the ones the script         *)
(* recomputes from the returned tables.                                     *)
C7_SurfacesAgree ==
    (Started /\ script = "sub_dashboard" /\ error = "none") =>
        /\ most_common_review_score = most_common_score
        /\ most_common_state_tab = most_common_state

(* C8: after any sequence of range changes, the loaded frame is the file,   *)
(* the filtered frame, the tables, the bin edges, the labels and the sums   *)
(* are those of the last selected range applied to the whole file; what a   *)
(* run did not assign is absent, not left over.                             *)
C8_OnlyCurrentRange ==
    Started =>
        LET f == FilterByDate(Prepare(csv), start_date, end_date)
            labels == Labels(script)
        IN  /\ all_df = Prepare(csv)
            /\ filtered_df = f
            /\ cut_bins = <<0, 5000, 10000, price_max(f)>>
            /\ IsTableOf(daily_orders_df, DailyRows(f))
            /\ IsTableOf(sum_spend_df, CustomerRows(f))
            /\ IsTableOf(sum_order_items_df, ItemRows(f))
            /\ IsTableOf(review_scores, ReviewRows(f))
            /\ IsTableOf(bystate_df, StateRows(f))
            /\ IsTableOf(order_status_df, StatusRows(f))
            /\ most_common_score = MostCommon(ReviewRows(f))
            /\ most_common_state = MostCommon(StateRows(f))
            /\ most_common_status = MostCommon(StatusRows(f))
            /\ average_spending \in {NoMetric, CustomerMean(f)}
            /\ IF CutFailed
               THEN price_category = <<>> /\ profit_comparison = <<>>
               ELSE /\ price_category = pd_cut(f, cut_bins, labels)
                    /\ profit_comparison = ProfitByCategory(f, price_category, labels)

(* A run on a narrower range than the file's, whose largest price is not    *)
(* the file's largest price.                                                *)
C8_Witness ==
    /\ Started /\ error = "none"
    /\ Len(filtered_df) < Len(all_df)
    /\ filtered_df # <<>>
    /\ cut_bins[4] # price_max(all_df)

===========================================================================
